---- MODULE Spec2Model ----
(***************************************************************************)
(* Model of the ryst OpenAI client (crate ryst-openai).                    *)
(*                                                                         *)
(* Part 1: the streaming response decoder,                                 *)
(*   CompletionResponseStream::next      (completion/response.rs)          *)
(*   ChatCompletionResponseStream::next  (chat_completion/response.rs)     *)
(* Part 2: the request builders and their terminal operations,             *)
(*   CompletionRequest / ChatCompletionRequest ::submit, ::stream          *)
(*                                                                         *)
(* Bytes are modelled as one-character strings.  A response document is    *)
(* abstracted to a small object grammar that keeps what serde_json does    *)
(* with it: whitespace is skipped before every token, "{" opens the        *)
(* object, the members are read one at a time, a duplicate or an unknown   *)
(* token is an error when it is met, a missing required member is an error *)
(* at "}", and anything but whitespace after "}" is an error.              *)
(*   "1", "2"  the member "id" with value 1 or 2                           *)
(*   "u"       the other required members, "choices" being an empty array  *)
(*   "c"       the same, "choices" holding one completion choice (text)    *)
(*   "m"       the same, "choices" holding one chat choice (message)       *)
(*   " "       whitespace                                                  *)
(***************************************************************************)
EXTENDS Integers, Sequences, FiniteSets, TLC

\* ------------------------------------------------------------------ bounds
MaxItems == 3       \* items the underlying stream delivers before its end
MaxCalls == 3       \* calls of next() on one handle
MaxStops == 6       \* longest slice handed to with_stops
MaxArray == 3       \* longest top_logprobs array given to flatten_log_probs

\* --------------------------------------------------------------- constants
STREAM_TERMINATION_STRING == <<"[", "D", "O", "N", "E", "]">>

Families == {"completion", "chat"}

\* The chunks the underlying byte stream may deliver.
ChunkValues ==
    { <<>>,
      <<" ">>,
      <<"{", "1", "u", "}">>,
      <<"{", "1">>,
      <<"u", "}">>,
      <<"{", "2", "u", "}">>,
      <<"{", "2", "c", "}">>,
      <<"{", "2", "m", "}">>,
      STREAM_TERMINATION_STRING }

\* The transport errors the underlying stream may yield.
TransportErrors == {"e1", "e2"}

\* Item = ReqwestResult<Bytes>
Chunk(b) == [ok |-> TRUE, bytes |-> b, err |-> ""]
Failure(e) == [ok |-> FALSE, bytes |-> <<>>, err |-> e]
Items == {Chunk(b) : b \in ChunkValues} \cup {Failure(e) : e \in TransportErrors}

SeqsUpTo(S, n) == UNION {[1..k -> S] : k \in 0..n}

\* ----------------------------------------------------------------- results
\* Result<_, OpenAIError>.  val: the decoded response (its id); arg: the
\* argument an InvalidArgumentError names; msg: a fixed message, a parser
\* message or the transport error wrapped; text: a response body text.
Res(kind, val, arg, msg, text) ==
    [kind |-> kind, val |-> val, arg |-> arg, msg |-> msg, text |-> text]
OkSome(r) == Res("Some", r, "", "", <<>>)
OkNone == Res("None", "", "", "", <<>>)
OkResponse(r) == Res("Response", r, "", "", <<>>)
OkStream == Res("Stream", "", "", "", <<>>)
\* OpenAIError::Internal(InternalError::from_source(Box::new(err)))
Internal(src) == Res("Internal", "", "", src, <<>>)
\* OpenAIError::Internal(InternalError::with_message(text))
InternalMessage(text) == Res("Internal", "", "", "", text)
\* OpenAIError::InvalidState(InvalidStateError::with_message(msg))
InvalidState(msg) == Res("InvalidState", "", "", msg, <<>>)
\* OpenAIError::InvalidArgument(InvalidArgumentError::new(arg, msg))
InvalidArgument(arg, msg) == Res("InvalidArgument", "", arg, msg, <<>>)
InvalidArgumentText(arg, text) == Res("InvalidArgument", "", arg, "", text)
NoResult == Res("", "", "", "", <<>>)

\* ------------------------------------------------------- serde_json parser
ParseOk(v) == [ok |-> TRUE, val |-> v]
ParseErr(m) == [ok |-> FALSE, val |-> m]

IdMembers == {"1", "2"}

RECURSIVE SkipWs(_, _)
SkipWs(b, i) == IF i <= Len(b) /\ b[i] = " " THEN SkipWs(b, i + 1) ELSE i

\* the tokens that carry the members other than id
RestMembers == {"u", "c", "m"}

\* a choice entry of the other family lacks a required field of this one:
\* CompletionChoice needs text, ChatChoice needs message
ChoiceError(t, c) ==
    IF c = "c" /\ t = "chat" THEN "missing field message"
    ELSE IF c = "m" /\ t = "completion" THEN "missing field text"
    ELSE ""

\* derive(Deserialize) of CompletionResponse (t = "completion") and of
\* ChatCompletionResponse (t = "chat")
RECURSIVE ParseMembers(_, _, _, _, _)
ParseMembers(t, b, i, id, usage) ==
    IF i > Len(b) THEN ParseErr("EOF while parsing an object")
    ELSE IF b[i] = " " THEN ParseMembers(t, b, i + 1, id, usage)
    ELSE IF b[i] = "}" THEN
        IF id = "" THEN ParseErr("missing field id")
        ELSE IF ~usage THEN ParseErr("missing field usage")
        ELSE IF SkipWs(b, i + 1) <= Len(b) THEN ParseErr("trailing characters")
        ELSE ParseOk(id)
    ELSE IF b[i] \in IdMembers THEN
        IF id # "" THEN ParseErr("duplicate field id")
        ELSE ParseMembers(t, b, i + 1, b[i], usage)
    ELSE IF b[i] \in RestMembers THEN
        IF usage THEN ParseErr("duplicate field usage")
        ELSE IF ChoiceError(t, b[i]) # "" THEN ParseErr(ChoiceError(t, b[i]))
        ELSE ParseMembers(t, b, i + 1, id, TRUE)
    ELSE ParseErr("key must be a string")

\* serde_json::from_slice::<CompletionResponse> / ::<ChatCompletionResponse>
from_slice(t, b) ==
    LET i == SkipWs(b, 1) IN
    IF i > Len(b) THEN ParseErr("EOF while parsing a value")
    ELSE IF b[i] = "{" THEN ParseMembers(t, b, i + 1, "", FALSE)
    ELSE ParseErr("expected value")

\* ------------------------------------------------------------------- state
\* family records which of the two families is running.  The actions are
\* the same for both; the code they run is that of completion/ (the
\* definitions without prefix) or that of chat_completion/ (the
\* definitions named Chat...), each taken from its own source file.
VARIABLES
    family,      \* which of the two families the handle belongs to
    script,      \* the items the underlying stream was created with (ghost)
    stream,      \* self.stream: the items not yet polled
    closes,      \* the underlying stream returns None once its items are polled
    ended,       \* the underlying stream has returned None to a poll
    pc,          \* position of the caller: "idle", or "drain" inside next()
    full_bytes,  \* the local buffer of the running next() call
    calls,       \* number of next() calls started
    results,     \* the values the calls returned, in order
    trace,       \* per returned call: items consumed, stream ended, buffer (ghost)
    builder,     \* the request builder (CompletionRequest / ChatCompletionRequest)
    env,         \* process configuration: OPENAI_API_KEY, OPENAI_API_ORG present
    op,          \* the terminal operation that consumed the builder, "" before
    rpc,         \* position of its future: "", "send", "body" (at an await), "done"
    outcome,     \* what the terminal operation returned
    posts,       \* number of request.send() calls made
    wire,        \* the request handed to send(): body and headers (ghost)
    net,         \* what the network answered to the send (ghost)
    array,       \* the top_logprobs array flatten_log_probs is given (ghost)
    seq,         \* the SeqAccess: the elements not yet visited
    result,      \* the HashMap visit_seq accumulates
    visit        \* position in visit_seq: "idle", "loop", "ok", "err"

decoderVars == <<script, stream, closes, ended, pc, full_bytes, calls, results, trace>>
requestVars == <<builder, env, op, rpc, outcome, posts, wire, net>>
flattenVars == <<array, seq, result, visit>>
vars == <<family, script, stream, closes, ended, pc, full_bytes, calls, results, trace,
          builder, env, op, rpc, outcome, posts, wire, net, array, seq, result, visit>>

\* ---------------------------------------------------------- decoder steps
\* variant: the sentinel comparison is missing, every chunk is appended
AppendChunkKeepsSentinel(buf, bytes) == buf \o bytes

\* variant: a chunk that ends with the sentinel loses it
AppendChunkStripsSentinel(buf, bytes) ==
    LET n == Len(bytes)
        m == Len(STREAM_TERMINATION_STRING) IN
    IF n >= m /\ SubSeq(bytes, n - m + 1, n) = STREAM_TERMINATION_STRING
    THEN buf \o SubSeq(bytes, 1, n - m)
    ELSE buf \o bytes

\* extend_from_slice unless the chunk is the sentinel
AppendChunk(buf, bytes) ==
    IF bytes # STREAM_TERMINATION_STRING THEN buf \o bytes ELSE buf

\* variant: the is_empty test is missing, an empty buffer is parsed too
FinishParsesEmpty(t, buf) ==
    LET p == from_slice(t, buf) IN
    IF p.ok THEN OkSome(p.val) ELSE InvalidState(p.val)

\* variant: a buffer that does not parse counts as no response
FinishSwallowsError(t, buf) ==
    IF buf = <<>> THEN OkNone
    ELSE LET p == from_slice(t, buf) IN
         IF p.ok THEN OkSome(p.val) ELSE OkNone

\* the tail of next(): what is returned once the stream has ended
Finish(t, buf) ==
    IF buf = <<>> THEN OkNone
    ELSE LET p == from_slice(t, buf) IN
         IF p.ok THEN OkSome(p.val) ELSE InvalidState(p.val)

\* variant: an error item ends the loop like the end of the stream does
OnErrorBreaks(buf, err) == Finish(family, buf)

\* variant: the transport error is reported as a parse failure
OnErrorInvalidState(buf, err) == InvalidState(err)

\* the Err arm of the match: the buffer is dropped, the error wrapped
OnError(buf, err) == Internal(err)

\* ------------------------------------ next() of chat_completion/response.rs
CHAT_STREAM_TERMINATION_STRING == <<"[", "D", "O", "N", "E", "]">>

\* extend_from_slice unless the chunk is the sentinel
ChatAppendChunk(buf, bytes) ==
    IF bytes # CHAT_STREAM_TERMINATION_STRING THEN buf \o bytes ELSE buf

\* the tail of next(): what is returned once the stream has ended
ChatFinish(buf) ==
    IF buf = <<>> THEN OkNone
    ELSE LET p == from_slice("chat", buf) IN
         IF p.ok THEN OkSome(p.val) ELSE InvalidState(p.val)

\* variant: the chat copy reports the transport error as InvalidState
ChatOnErrorInvalidState(buf, err) == InvalidState(err)

\* the Err arm
ChatOnError(buf, err) == Internal(err)

\* the code family t runs
AppendChunkOf(t, buf, bytes) ==
    IF t = "chat" THEN ChatAppendChunk(buf, bytes) ELSE AppendChunk(buf, bytes)
FinishOf(t, buf) == IF t = "chat" THEN ChatFinish(buf) ELSE Finish(t, buf)
OnErrorOf(t, buf, err) ==
    IF t = "chat" THEN ChatOnError(buf, err) ELSE OnError(buf, err)

Consumed == Len(script) - Len(stream)

Return(r) ==
    /\ results' = Append(results, r)
    /\ trace' = Append(trace, [consumed |-> Len(script) - Len(stream'),
                               ended |-> ended',
                               buf |-> full_bytes])
    /\ pc' = "idle"
    /\ full_bytes' = <<>>

\* --------------------------------------------------------- request builder
\* Option<T>: None is the empty sequence, Some(x) the one-element sequence.
None == <<>>
Some(x) == <<x>>
is_some(o) == o # <<>>

\* the largest number of stop sequences the builders let through
StopLimit == 4

\* CompletionRequest::new / ChatCompletionRequest::new (..Default::default())
new ==
    [temperature |-> None, top_p |-> None, n |-> None, stream |-> None,
     stop |-> None, max_tokens |-> None]

\* .json(&self): every field that is Some, by name (skip_serializing_if)
json(b) == [f \in {g \in DOMAIN b : is_some(b[g])} |-> b[f][1]]

\* variant: the limit is off by one
TooManyStopsOffByOne(b) == is_some(b.stop) /\ Len(b.stop[1]) > StopLimit + 1

\* if let Some(stops) = self.stop { if stops.len() > 4 ...
TooManyStops(b) == is_some(b.stop) /\ Len(b.stop[1]) > StopLimit

\* variant: the second test is negated
BothSamplingNegated(b) == is_some(b.temperature) /\ ~is_some(b.top_p)

\* self.temperature.is_some() && self.top_p.is_some()
BothSampling(b) == is_some(b.temperature) /\ is_some(b.top_p)


\* self.stream == Some(true)
StreamForced(b) == b.stream = Some(TRUE)

\* variant: the sampling check runs before the stop check
LocalChecksSamplingFirst(b, isSubmit) ==
    IF BothSampling(b) THEN
        InvalidArgument("temperature", "Use temperature or top_p but not both")
    ELSE IF TooManyStops(b) THEN
        InvalidArgument("stop", "You can only provide up to 4 stop sequences")
    ELSE IF isSubmit /\ StreamForced(b) THEN
        InvalidArgument("stream", "Use stream() instead of submit")
    ELSE NoResult

\* The checks between building the request and sending it, in code order.
\* The result is the error returned, or NoResult when the call goes on.
LocalChecks(b, isSubmit) ==
    IF TooManyStops(b) THEN
        InvalidArgument("stop", "You can only provide up to 4 stop sequences")
    ELSE IF BothSampling(b) THEN
        InvalidArgument("temperature", "Use temperature or top_p but not both")
    ELSE IF isSubmit /\ StreamForced(b) THEN
        InvalidArgument("stream", "Use stream() instead of submit")
    ELSE NoResult

\* ---------------------------------------------------------------- network
Statuses == {199, 200, 299, 300, 400, 499, 500}
is_success(status) == 200 <= status /\ status < 300
\* variant: the upper end of the range is included
is_client_error_inclusive(status) == 400 <= status /\ status <= 500
is_client_error(status) == 400 <= status /\ status < 500

\* response bodies: a document, a document with a completion choice, a
\* truncated document, an error text
Bodies ==
    { <<"{", "1", "u", "}">>, <<"{", "1", "c", "}">>, <<"{", "1">>, <<"b", "a", "d">> }

\* What the network does with one send: the send fails with a transport
\* error, or a response with a status arrives whose body can be read or
\* breaks off with a transport error.  SendOutcomes is what send().await
\* resolves to, BodyOutcomes what the read of the body resolves to, and
\* NetOutcomes the two put together.
NoNet == [sent |-> FALSE, status |-> 0, body |-> <<>>, read |-> FALSE, err |-> ""]
NetOutcomes ==
    {[sent |-> FALSE, status |-> 0, body |-> <<>>, read |-> FALSE, err |-> e] :
        e \in TransportErrors}
    \cup {[sent |-> TRUE, status |-> st, body |-> bd, read |-> TRUE, err |-> ""] :
        st \in Statuses, bd \in Bodies}
    \cup {[sent |-> TRUE, status |-> st, body |-> <<>>, read |-> FALSE, err |-> e] :
        st \in Statuses, e \in TransportErrors}

SendOutcomes ==
    {[sent |-> FALSE, status |-> 0, body |-> <<>>, read |-> FALSE, err |-> e] :
        e \in TransportErrors}
    \cup {[sent |-> TRUE, status |-> st, body |-> <<>>, read |-> FALSE, err |-> ""] :
        st \in Statuses}
BodyOutcomes ==
    {[body |-> bd, read |-> TRUE, err |-> ""] : bd \in Bodies}
    \cup {[body |-> <<>>, read |-> FALSE, err |-> e] : e \in TransportErrors}
\* the response x with its body read as r
WithBody(x, r) == [x EXCEPT !.body = r.body, !.read = r.read, !.err = r.err]

\* the non-2xx branch shared by submit() and stream()
ErrorStatus(x) ==
    IF ~x.read THEN InvalidState(x.err)
    ELSE IF is_client_error(x.status) THEN InvalidArgumentText("request", x.body)
    ELSE InternalMessage(x.body)

\* match request.send().await of submit()
SubmitResponse(t, x) ==
    IF ~x.sent THEN Internal(x.err)
    ELSE IF is_success(x.status) THEN
        IF ~x.read THEN InvalidState(x.err)
        ELSE LET p == from_slice(t, x.body) IN
             IF p.ok THEN OkResponse(p.val) ELSE InvalidState(p.val)
    ELSE ErrorStatus(x)

\* match request.send().await of stream()
StreamResponse(x) ==
    IF ~x.sent THEN Internal(x.err)
    ELSE IF is_success(x.status) THEN OkStream
    ELSE ErrorStatus(x)

\* variant: the missing key is reported as a bad argument
MissingKeyAsArgument ==
    InvalidArgument("OPENAI_API_KEY", "OPENAI_API_KEY env variable must be set")

MissingKey == InvalidState("OPENAI_API_KEY env variable must be set")

\* What a terminal operation o of family t returns for builder b under
\* configuration e when the network answers x: the key lookup, the local
\* checks, then the match on request.send().await.
TerminalOutcome(t, o, b, e, x) ==
    IF ~e.key THEN MissingKey
    ELSE IF LocalChecks(b, o = "submit") # NoResult THEN LocalChecks(b, o = "submit")
    ELSE IF o = "submit" THEN SubmitResponse(t, x)
    ELSE StreamResponse(x)

\* ----------------------- submit() and stream() of chat_completion/request.rs
ChatMissingKey == InvalidState("OPENAI_API_KEY env variable must be set")

\* the checks between building the request and sending it, in code order
ChatLocalChecks(b, isSubmit) ==
    IF is_some(b.stop) /\ Len(b.stop[1]) > 4 THEN
        InvalidArgument("stop", "You can only provide up to 4 stop sequences")
    ELSE IF is_some(b.temperature) /\ is_some(b.top_p) THEN
        InvalidArgument("temperature", "Use temperature or top_p but not both")
    ELSE IF isSubmit /\ b.stream = Some(TRUE) THEN
        InvalidArgument("stream", "Use stream() instead of submit")
    ELSE NoResult

\* match request.send().await of submit()
ChatSubmitResponse(x) ==
    IF ~x.sent THEN Internal(x.err)
    ELSE IF is_success(x.status) THEN
        IF ~x.read THEN InvalidState(x.err)
        ELSE LET p == from_slice("chat", x.body) IN
             IF p.ok THEN OkResponse(p.val) ELSE InvalidState(p.val)
    ELSE IF ~x.read THEN InvalidState(x.err)
    ELSE IF is_client_error(x.status) THEN InvalidArgumentText("request", x.body)
    ELSE InternalMessage(x.body)

\* match request.send().await of stream()
ChatStreamResponse(x) ==
    IF ~x.sent THEN Internal(x.err)
    ELSE IF is_success(x.status) THEN OkStream
    ELSE IF ~x.read THEN InvalidState(x.err)
    ELSE IF is_client_error(x.status) THEN InvalidArgumentText("request", x.body)
    ELSE InternalMessage(x.body)

\* what a terminal operation o of the chat family returns
ChatTerminalOutcome(o, b, e, x) ==
    IF ~e.key THEN ChatMissingKey
    ELSE IF ChatLocalChecks(b, o = "submit") # NoResult
        THEN ChatLocalChecks(b, o = "submit")
    ELSE IF o = "submit" THEN ChatSubmitResponse(x)
    ELSE ChatStreamResponse(x)

\* the code family t runs
MissingKeyOf(t) == IF t = "chat" THEN ChatMissingKey ELSE MissingKey
LocalChecksOf(t, b, isSubmit) ==
    IF t = "chat" THEN ChatLocalChecks(b, isSubmit) ELSE LocalChecks(b, isSubmit)

\* the RequestBuilder: body and the headers that depend on the configuration
Request(b) == [body |-> json(b), auth |-> env.key, org |-> env.org]
NoWire == [body |-> json(new), auth |-> FALSE, org |-> FALSE]

\* ------------------------------------------------------------ idle halves
DecoderIdle ==
    /\ script = <<>>
    /\ stream = <<>>
    /\ closes = TRUE
    /\ ended = FALSE
    /\ pc = "idle"
    /\ full_bytes = <<>>
    /\ calls = 0
    /\ results = <<>>
    /\ trace = <<>>

RequestIdle ==
    /\ builder = new
    /\ env = [key |-> TRUE, org |-> FALSE]
    /\ op = ""
    /\ rpc = ""
    /\ outcome = NoResult
    /\ posts = 0
    /\ wire = NoWire
    /\ net = NoNet

\* ------------------------------------------------- flatten_log_probs
LogProbKeys == {"a", "b"}
\* f32 values 1.0, 2.0, 3.0
LogProbValues == {1, 2, 3}
EmptyMap == [k \in {} |-> 1]
\* the elements of the array: an object of string keys to floats, or
\* something next_element::<HashMap<String, f32>> cannot read
LogProbMaps == UNION {[D -> LogProbValues] : D \in SUBSET LogProbKeys}
Elements ==
    {[ok |-> TRUE, map |-> m] : m \in LogProbMaps}
    \cup {[ok |-> FALSE, map |-> EmptyMap]}

\* variant: a key already present keeps its value (entry().or_insert)
insertKeepsFirst(m, key, value) ==
    [k \in DOMAIN m \cup {key} |-> IF k \in DOMAIN m THEN m[k] ELSE value]

\* result.insert(key, value)
insert(m, key, value) ==
    [k \in DOMAIN m \cup {key} |-> IF k = key THEN value ELSE m[k]]

\* for (key, value) in map { result.insert(key, value); }
RECURSIVE InsertAll(_, _, _)
InsertAll(m, map, keys) ==
    IF keys = {} THEN m
    ELSE LET key == CHOOSE k \in keys : TRUE IN
         InsertAll(insert(m, key, map[key]), map, keys \ {key})

FlattenIdle ==
    /\ array = <<>>
    /\ seq = <<>>
    /\ result = EmptyMap
    /\ visit = "idle"

\* ---------------------------------------------------------- decoder model
\* CompletionResponseStream::new / ChatCompletionResponseStream::new
Init ==
    /\ family \in Families
    /\ script \in SeqsUpTo(Items, MaxItems)
    /\ stream = script
    /\ closes \in BOOLEAN
    /\ ended = FALSE
    /\ pc = "idle"
    /\ full_bytes = <<>>
    /\ calls = 0
    /\ results = <<>>
    /\ trace = <<>>
    /\ RequestIdle
    /\ FlattenIdle

\* entry of next(): let mut full_bytes = BytesMut::new();
NextCall ==
    /\ pc = "idle"
    /\ calls < MaxCalls
    /\ calls' = calls + 1
    /\ pc' = "drain"
    /\ full_bytes' = <<>>
    /\ UNCHANGED <<family, script, stream, closes, ended, results, trace>>
    /\ UNCHANGED requestVars
    /\ UNCHANGED flattenVars

\* variant: the loop is left at the sentinel chunk
PollChunkStopsAtSentinel ==
    /\ pc = "drain"
    /\ stream # <<>>
    /\ Head(stream).ok
    /\ stream' = Tail(stream)
    /\ IF Head(stream).bytes = STREAM_TERMINATION_STRING
       THEN /\ ended' = ended
            /\ Return(FinishOf(family, full_bytes))
            /\ UNCHANGED <<family, script, closes, calls>>
       ELSE /\ full_bytes' = AppendChunkOf(family, full_bytes, Head(stream).bytes)
            /\ UNCHANGED <<family, script, closes, ended, pc, calls, results, trace>>
    /\ UNCHANGED requestVars
    /\ UNCHANGED flattenVars

\* one iteration of the while-let: the poll yields Some(Ok(bytes))
PollChunk ==
    /\ pc = "drain"
    /\ stream # <<>>
    /\ Head(stream).ok
    /\ full_bytes' = AppendChunkOf(family, full_bytes, Head(stream).bytes)
    /\ stream' = Tail(stream)
    /\ UNCHANGED <<family, script, closes, ended, pc, calls, results, trace>>
    /\ UNCHANGED requestVars
    /\ UNCHANGED flattenVars

\* variant: the bytes buffered before the error are handed to the next call
PollErrKeepsBuffer ==
    /\ pc = "drain"
    /\ stream # <<>>
    /\ ~Head(stream).ok
    /\ stream' = <<Chunk(full_bytes)>> \o Tail(stream)
    /\ ended' = ended
    /\ Return(OnErrorOf(family, full_bytes, Head(stream).err))
    /\ UNCHANGED <<family, script, closes, calls>>
    /\ UNCHANGED requestVars
    /\ UNCHANGED flattenVars

\* one iteration of the while-let: the poll yields Some(Err(err))
PollErr ==
    /\ pc = "drain"
    /\ stream # <<>>
    /\ ~Head(stream).ok
    /\ stream' = Tail(stream)
    /\ ended' = ended
    /\ Return(OnErrorOf(family, full_bytes, Head(stream).err))
    /\ UNCHANGED <<family, script, closes, calls>>
    /\ UNCHANGED requestVars
    /\ UNCHANGED flattenVars

\* the poll yields None: the loop exits and the buffer is decoded.
\* The stream is response.bytes_stream(): once it has returned None it
\* returns None to every later poll (completion/mod.rs:55-59 relies on it).
\* A stream that stays open has no item and no None to yield: the poll
\* is pending and the call stays inside the loop.
PollEnd ==
    /\ pc = "drain"
    /\ stream = <<>>
    /\ closes
    /\ stream' = stream
    /\ ended' = TRUE
    /\ Return(FinishOf(family, full_bytes))
    /\ UNCHANGED <<family, script, closes, calls>>
    /\ UNCHANGED requestVars
    /\ UNCHANGED flattenVars

Next == NextCall \/ PollChunk \/ PollErr \/ PollEnd

Spec == Init /\ [][Next]_vars

\* The same handle over a byte stream whose chunk boundaries do not fall
\* on the boundaries of the messages: the sentinel arrives on its own,
\* glued to the document before it, followed by one more byte, or cut in
\* two.
SplitChunkValues ==
    { <<"{", "1", "u", "}">>,
      STREAM_TERMINATION_STRING,
      <<"{", "1", "u", "}">> \o STREAM_TERMINATION_STRING,
      STREAM_TERMINATION_STRING \o <<" ">>,
      <<"[", "D", "O">>,
      <<"N", "E", "]">> }
SplitItems == {Chunk(b) : b \in SplitChunkValues} \cup {Failure("e1")}

SplitInit ==
    /\ family \in Families
    /\ script \in SeqsUpTo(SplitItems, MaxItems)
    /\ stream = script
    /\ closes \in BOOLEAN
    /\ ended = FALSE
    /\ pc = "idle"
    /\ full_bytes = <<>>
    /\ calls = 0
    /\ results = <<>>
    /\ trace = <<>>
    /\ RequestIdle
    /\ FlattenIdle

SplitSpec == SplitInit /\ [][Next]_vars

\* The handle under an executor that polls the call again whenever the
\* underlying stream has an item or its end to yield: a ready poll result
\* is delivered, a pending poll is waited for without limit. The caller
\* is free never to call next() again.
LiveItems == {Chunk(<<"{", "1", "u", "}">>), Chunk(STREAM_TERMINATION_STRING),
              Failure("e1")}

LiveInit ==
    /\ family \in Families
    /\ script \in SeqsUpTo(LiveItems, MaxItems)
    /\ stream = script
    /\ closes \in BOOLEAN
    /\ ended = FALSE
    /\ pc = "idle"
    /\ full_bytes = <<>>
    /\ calls = 0
    /\ results = <<>>
    /\ trace = <<>>
    /\ RequestIdle
    /\ FlattenIdle

LiveSpec ==
    /\ LiveInit
    /\ [][Next]_vars
    /\ WF_vars(PollChunk)
    /\ WF_vars(PollErr)
    /\ WF_vars(PollEnd)

\* ---------------------------------------------------------- request model
StopVecs == UNION {[1..k -> {"s"}] : k \in 0..MaxStops}

\* a builder fresh from new(), under some process configuration
ReqInit ==
    /\ family \in Families
    /\ builder = new
    /\ env \in [key : BOOLEAN, org : BOOLEAN]
    /\ op = ""
    /\ rpc = ""
    /\ outcome = NoResult
    /\ posts = 0
    /\ wire = NoWire
    /\ net = NoNet
    /\ DecoderIdle
    /\ FlattenIdle

Set(field, value) ==
    /\ op = ""
    /\ builder' = [builder EXCEPT ![field] = Some(value)]
    /\ UNCHANGED <<family, env, op, rpc, outcome, posts, wire, net>>
    /\ UNCHANGED decoderVars
    /\ UNCHANGED flattenVars

with_temperature == Set("temperature", "t")
with_top_p == Set("top_p", "p")
\* variant: the setter writes the stream field
with_n_writes_stream == Set("stream", TRUE)
with_n == Set("n", "n")
with_max_tokens == Set("max_tokens", "m")
with_stop == Set("stop", <<"s">>)
with_stops == \E v \in StopVecs : Set("stop", v)

\* variant: the request is sent before the local checks are made
submit_sends_first ==
    /\ op = ""
    /\ op' = "submit"
    /\ builder' = builder
    /\ IF ~env.key THEN
          /\ outcome' = MissingKeyOf(family)
          /\ rpc' = "done"
          /\ UNCHANGED <<posts, wire, net>>
       ELSE
          /\ posts' = posts + 1
          /\ wire' = Request(builder)
          /\ net' = net
          /\ IF LocalChecksOf(family, builder, TRUE) # NoResult
             THEN outcome' = LocalChecksOf(family, builder, TRUE) /\ rpc' = "done"
             ELSE outcome' = outcome /\ rpc' = "send"
    /\ UNCHANGED <<family, env>>
    /\ UNCHANGED decoderVars
    /\ UNCHANGED flattenVars

\* CompletionRequest::submit / ChatCompletionRequest::submit, from the
\* call to the first suspension: the key lookup and the local checks
\* return at once, otherwise the request is handed to send() and the
\* future waits at request.send().await.  A future that is dropped or
\* never polled again stays where it is.
submit ==
    /\ op = ""
    /\ op' = "submit"
    /\ builder' = builder
    /\ IF ~env.key THEN
          /\ outcome' = MissingKeyOf(family)
          /\ rpc' = "done"
          /\ UNCHANGED <<posts, wire, net>>
       ELSE IF LocalChecksOf(family, builder, TRUE) # NoResult THEN
          /\ outcome' = LocalChecksOf(family, builder, TRUE)
          /\ rpc' = "done"
          /\ UNCHANGED <<posts, wire, net>>
       ELSE
          /\ posts' = posts + 1
          /\ wire' = Request(builder)
          /\ rpc' = "send"
          /\ UNCHANGED <<outcome, net>>
    /\ UNCHANGED <<family, env>>
    /\ UNCHANGED decoderVars
    /\ UNCHANGED flattenVars

\* variant: the stream flag is set before the body is serialized
stream_flag_first ==
    /\ op = ""
    /\ op' = "stream"
    /\ IF ~env.key THEN
          /\ outcome' = MissingKeyOf(family)
          /\ rpc' = "done"
          /\ UNCHANGED <<builder, posts, wire, net>>
       ELSE IF LocalChecksOf(family, builder, FALSE) # NoResult THEN
          /\ outcome' = LocalChecksOf(family, builder, FALSE)
          /\ rpc' = "done"
          /\ UNCHANGED <<builder, posts, wire, net>>
       ELSE
          /\ builder' = [builder EXCEPT !.stream = Some(TRUE)]
          /\ posts' = posts + 1
          /\ wire' = Request(builder')
          /\ rpc' = "send"
          /\ UNCHANGED <<outcome, net>>
    /\ UNCHANGED <<family, env>>
    /\ UNCHANGED decoderVars
    /\ UNCHANGED flattenVars

\* CompletionRequest::stream / ChatCompletionRequest::stream, from the
\* call to the first suspension
stream_ ==
    /\ op = ""
    /\ op' = "stream"
    /\ IF ~env.key THEN
          /\ outcome' = MissingKeyOf(family)
          /\ rpc' = "done"
          /\ UNCHANGED <<builder, posts, wire, net>>
       ELSE IF LocalChecksOf(family, builder, FALSE) # NoResult THEN
          /\ outcome' = LocalChecksOf(family, builder, FALSE)
          /\ rpc' = "done"
          /\ UNCHANGED <<builder, posts, wire, net>>
       ELSE
          /\ builder' = [builder EXCEPT !.stream = Some(TRUE)]
          /\ posts' = posts + 1
          /\ wire' = Request(builder)
          /\ rpc' = "send"
          /\ UNCHANGED <<outcome, net>>
    /\ UNCHANGED <<family, env>>
    /\ UNCHANGED decoderVars
    /\ UNCHANGED flattenVars

\* what the operation o returns for the network answer x
Response(o, x) ==
    IF family = "chat"
    THEN (IF o = "submit" THEN ChatSubmitResponse(x) ELSE ChatStreamResponse(x))
    ELSE (IF o = "submit" THEN SubmitResponse(family, x) ELSE StreamResponse(x))

\* request.send().await resolves: a send error and, in stream(), a 2xx
\* status return at once; otherwise the future goes on to read the body
\* and waits at response.json().await or response.text().await
SendDone ==
    /\ rpc = "send"
    /\ \E x \in SendOutcomes :
          /\ net' = x
          /\ IF ~x.sent \/ (op = "stream" /\ is_success(x.status))
             THEN outcome' = Response(op, x) /\ rpc' = "done"
             ELSE outcome' = outcome /\ rpc' = "body"
    /\ UNCHANGED <<family, builder, env, op, posts, wire>>
    /\ UNCHANGED decoderVars
    /\ UNCHANGED flattenVars

\* the read of the body resolves and the operation returns
BodyDone ==
    /\ rpc = "body"
    /\ \E r \in BodyOutcomes :
          /\ net' = WithBody(net, r)
          /\ outcome' = Response(op, WithBody(net, r))
    /\ rpc' = "done"
    /\ UNCHANGED <<family, builder, env, op, posts, wire>>
    /\ UNCHANGED decoderVars
    /\ UNCHANGED flattenVars

ReqNext ==
    \/ with_temperature \/ with_top_p \/ with_n \/ with_max_tokens
    \/ with_stop \/ with_stops
    \/ submit \/ stream_
    \/ SendDone \/ BodyDone

ReqSpec == ReqInit /\ [][ReqNext]_vars

\* The same operations on any value of the builder type.  The stream
\* field is private and nothing in the crate writes it before a terminal
\* operation, so the builders with the field set are not builders a
\* caller can make: these are more states than the program has, and what
\* holds in all of them holds in the program.
ForcedInit ==
    /\ family \in Families
    /\ \E s \in {None, Some(TRUE), Some(FALSE)} :
            builder = [new EXCEPT !.stream = s]
    /\ env \in [key : BOOLEAN, org : BOOLEAN]
    /\ op = ""
    /\ rpc = ""
    /\ outcome = NoResult
    /\ posts = 0
    /\ wire = NoWire
    /\ net = NoNet
    /\ DecoderIdle
    /\ FlattenIdle

ForcedSpec == ForcedInit /\ [][ReqNext]_vars

\* ------------------------------------------- flatten_log_probs model
\* entry of visit_seq: let mut result = HashMap::new();
FlattenInit ==
    /\ family = "completion"
    /\ array \in SeqsUpTo(Elements, MaxArray)
    /\ seq = array
    /\ result = EmptyMap
    /\ visit = "loop"
    /\ DecoderIdle
    /\ RequestIdle

\* one iteration of the while-let: next_element yields Ok(Some(map))
VisitElement ==
    /\ visit = "loop"
    /\ seq # <<>>
    /\ Head(seq).ok
    /\ result' = InsertAll(result, Head(seq).map, DOMAIN Head(seq).map)
    /\ seq' = Tail(seq)
    /\ UNCHANGED <<family, array, visit>>
    /\ UNCHANGED decoderVars
    /\ UNCHANGED requestVars

\* next_element yields Err: the ? operator returns the error
VisitInvalid ==
    /\ visit = "loop"
    /\ seq # <<>>
    /\ ~Head(seq).ok
    /\ visit' = "err"
    /\ result' = EmptyMap
    /\ UNCHANGED <<family, array, seq>>
    /\ UNCHANGED decoderVars
    /\ UNCHANGED requestVars

\* next_element yields Ok(None): Ok(result)
VisitEnd ==
    /\ visit = "loop"
    /\ seq = <<>>
    /\ visit' = "ok"
    /\ UNCHANGED <<family, array, seq, result>>
    /\ UNCHANGED decoderVars
    /\ UNCHANGED requestVars

FlattenNext == VisitElement \/ VisitInvalid \/ VisitEnd

FlattenSpec == FlattenInit /\ [][FlattenNext]_vars

\* =================================================================
\* Properties of the streaming decoder (checked under Spec)
\* =================================================================
Sentinel == Chunk(STREAM_TERMINATION_STRING)

\* the bytes of the chunks script[i..j], sentinel chunks left out
RECURSIVE NonSentinelBytes(_, _)
NonSentinelBytes(i, j) ==
    IF i > j THEN <<>>
    ELSE IF script[j].ok /\ script[j] # Sentinel
         THEN NonSentinelBytes(i, j - 1) \o script[j].bytes
         ELSE NonSentinelBytes(i, j - 1)

\* the bytes of all the chunks script[i..j], in arrival order
RECURSIVE AllBytes(_, _)
AllBytes(i, j) ==
    IF i > j THEN <<>> ELSE AllBytes(i, j - 1) \o script[j].bytes

\* A valid response document, stated on its own: an object that has
\* each required member exactly once, with optional whitespace before,
\* between and after its tokens.
RECURSIVE Trim(_)
Trim(b) ==
    IF b = <<>> THEN b
    ELSE IF Head(b) = " " THEN Trim(Tail(b))
    ELSE <<Head(b)>> \o Trim(Tail(b))
\* the tokens for the rest of the members a family accepts
RestOf(t) == IF t = "completion" THEN {"u", "c"} ELSE {"u", "m"}
DocumentsOf(t) ==
    {<<"{", i, r, "}">> : i \in IdMembers, r \in RestOf(t)}
    \cup {<<"{", r, i, "}">> : i \in IdMembers, r \in RestOf(t)}
Documents == DocumentsOf(family)
IsOneDocument(b) == Trim(b) \in Documents
DocumentId(b) == CHOOSE i \in IdMembers : i \in {Trim(b)[2], Trim(b)[3]}

Returned == 1..Len(results)
\* number of script items consumed before call k started
CallStart(k) == IF k = 1 THEN 0 ELSE trace[k - 1].consumed
\* positions of the error items call k had in front of it
ErrorsAhead(k) == {i \in (CallStart(k) + 1)..Len(script) : ~script[i].ok}
FirstErrorAhead(k) == CHOOSE i \in ErrorsAhead(k) : \A j \in ErrorsAhead(k) : i <= j
\* the non-sentinel bytes call k received
CallBytes(k) == NonSentinelBytes(CallStart(k) + 1, trace[k].consumed)

\* the script is: chunks forming one document, then the sentinel, then end
DocThenSentinel ==
    /\ Len(script) >= 2
    /\ script[Len(script)] = Sentinel
    /\ \A i \in 1..(Len(script) - 1) : script[i].ok
    /\ IsOneDocument(AllBytes(1, Len(script) - 1))

\* C1: when the chunks form one valid document and are followed by the
\* sentinel and the end of the stream, the first next() returns exactly that
\* document, decoded from the concatenation of the chunks before the
\* sentinel in arrival order, the sentinel bytes left out.
C1_FirstCallDecodesDocument ==
    (DocThenSentinel /\ Len(results) >= 1) =>
        /\ results[1] = OkSome(DocumentId(AllBytes(1, Len(script) - 1)))
        /\ trace[1].buf = AllBytes(1, Len(script) - 1)

C1_Witness ==
    /\ DocThenSentinel
    /\ Len(script) = 3
    /\ script[1].bytes # <<>> /\ script[2].bytes # <<>>
    /\ Len(results) >= 1
    /\ results[1].kind = "Some"

\* C2: once the underlying stream has signalled its end, every later call
\* of next() returns Ok(None).
C2_NoneAfterEnd ==
    \A k \in Returned : (k > 1 /\ trace[k - 1].ended) => results[k] = OkNone

C2_Witness ==
    /\ Len(results) = 3
    /\ results[1].kind = "Some"
    /\ trace[1].ended
    /\ results[2] = OkNone /\ results[3] = OkNone

\* C3: over all the calls on one handle at most one returns Ok(Some).
C3_AtMostOneResponse ==
    Cardinality({k \in Returned : results[k].kind = "Some"}) <= 1

C3_Witness ==
    /\ Len(results) = 3
    /\ results[1].kind = "Internal"
    /\ results[2].kind = "Some"
    /\ results[3] = OkNone
    /\ trace[1].buf # <<>>

\* C4: a call that has an error item ahead of it reads up to the first such
\* item and no further, returns Internal wrapping that very error, and its
\* buffer is gone when it has returned.
C4_ErrorAborts ==
    /\ \A k \in Returned : ErrorsAhead(k) # {} =>
            /\ results[k] = Internal(script[FirstErrorAhead(k)].err)
            /\ trace[k].consumed = FirstErrorAhead(k)
    /\ pc = "idle" => full_bytes = <<>>

C4_Witness ==
    \E k \in Returned :
        /\ results[k].kind = "Internal"
        /\ IsOneDocument(trace[k].buf)
        /\ trace[k].consumed < Len(script)

\* every item of the script is a sentinel chunk (or there is none)
OnlySentinels == \A i \in 1..Len(script) : script[i] = Sentinel

\* C5: a stream of sentinels only, or of nothing, gives Ok(None); and a
\* call returns Ok(None) exactly when it reached the end of the stream
\* with no non-sentinel byte received.
C5_NoneIffEmptyAtEnd ==
    /\ (OnlySentinels /\ Len(results) >= 1) => results[1] = OkNone
    /\ \A k \in Returned :
            results[k] = OkNone <=> (trace[k].ended /\ CallBytes(k) = <<>>)

C5_Witness ==
    /\ OnlySentinels
    /\ Len(script) >= 2
    /\ Len(results) >= 1
    /\ results[1] = OkNone

\* C6: a call returns an Ok result only after the underlying stream has
\* signalled its end, with every item of the stream read.
C6_OkOnlyAtEnd ==
    \A k \in Returned : results[k].kind \in {"Some", "None"} =>
        /\ trace[k].ended
        /\ trace[k].consumed = Len(script)

C6_Witness ==
    /\ Len(script) = 3
    /\ Len(results) = 1
    /\ results[1].kind = "None"
    /\ script[1] = Sentinel

\* positions of the sentinel chunks call k received
SentinelsOf(k) ==
    {i \in (CallStart(k) + 1)..trace[k].consumed : script[i] = Sentinel}
FirstSentinelOf(k) == CHOOSE i \in SentinelsOf(k) : \A j \in SentinelsOf(k) : i <= j

\* C7 as stated: the sentinel ends the stream for the decoder, so a call
\* that received a sentinel decodes the bytes that came before it and the
\* chunks after it are not in the buffer.
C7_SentinelTerminates ==
    \A k \in Returned : (trace[k].ended /\ SentinelsOf(k) # {}) =>
        /\ trace[k].buf = NonSentinelBytes(CallStart(k) + 1, FirstSentinelOf(k))
        /\ results[k] = FinishOf(family, NonSentinelBytes(CallStart(k) + 1, FirstSentinelOf(k)))

\* C7 amended: the sentinel chunk is only left out of the buffer; the call
\* reads on to the end of the stream, and what it decodes is all the
\* non-sentinel bytes it received, those after a sentinel included.
C7_SentinelSkipped ==
    \A k \in Returned : trace[k].ended =>
        /\ trace[k].consumed = Len(script)
        /\ trace[k].buf = CallBytes(k)
        /\ results[k] = FinishOf(family, CallBytes(k))

C7_Witness ==
    /\ Len(script) = 2
    /\ script[1] = Sentinel
    /\ Len(results) >= 1
    /\ results[1].kind = "Some"

\* C8: when the stream ended and the bytes received are not empty and not
\* exactly one valid document, the call returns InvalidState with the
\* message of the parser.
C8_BadBufferIsInvalidState ==
    \A k \in Returned :
        (trace[k].ended /\ CallBytes(k) # <<>> /\ ~IsOneDocument(CallBytes(k))) =>
            /\ results[k].kind = "InvalidState"
            /\ results[k] = InvalidState(from_slice(family, CallBytes(k)).val)
            /\ results[k].msg # ""

C8_Witness ==
    \E k \in Returned :
        /\ trace[k].ended
        /\ results[k] = InvalidState("trailing characters")
        /\ Len(CallBytes(k)) = 8

\* =================================================================
\* Properties of the request builders (checked under ReqSpec)
\* =================================================================

\* temperature and top_p are both set on the builder
TemperatureAndTopP == builder.temperature # None /\ builder.top_p # None

\* C9 as stated: with temperature and top_p both set the terminal
\* operation fails with InvalidArgument and posts nothing, whatever the
\* process configuration.
C9_BothSamplingRejected ==
    (op # "" /\ TemperatureAndTopP) =>
        (outcome.kind = "InvalidArgument" /\ posts = 0)

\* C9 amended: the same, provided OPENAI_API_KEY is set.
C9_BothSamplingRejectedWithKey ==
    (op # "" /\ env.key /\ TemperatureAndTopP) =>
        (outcome.kind = "InvalidArgument" /\ posts = 0 /\ net = NoNet)

C9_Witness ==
    /\ op = "stream"
    /\ env.key
    /\ TemperatureAndTopP
    /\ ~is_some(builder.stop)
    /\ outcome = InvalidArgument("temperature", "Use temperature or top_p but not both")

\* C10 as stated: with more than 4 stop sequences the terminal operation
\* fails with InvalidArgument and posts nothing, whatever the process
\* configuration.
C10_TooManyStopsRejected ==
    (op # "" /\ is_some(builder.stop) /\ Len(builder.stop[1]) > 4) =>
        (outcome.kind = "InvalidArgument" /\ posts = 0)

\* C10 amended: the same, provided OPENAI_API_KEY is set.
C10_TooManyStopsRejectedWithKey ==
    (op # "" /\ env.key /\ is_some(builder.stop) /\ Len(builder.stop[1]) > 4) =>
        (outcome.kind = "InvalidArgument" /\ posts = 0 /\ net = NoNet)

C10_Witness ==
    /\ op = "submit"
    /\ env.key
    /\ is_some(builder.stop) /\ Len(builder.stop[1]) = 5
    /\ outcome = InvalidArgument("stop", "You can only provide up to 4 stop sequences")

\* the builder carries more than 4 stop sequences
MoreThanFourStops == builder.stop # None /\ Len(builder.stop[1]) > 4
\* a request was sent and a response with a status came back
ResponseReceived == posts = 1 /\ net.sent
Success2xx == net.status \in 200..299
Client4xx == net.status \in 400..499
ErrorKinds == {"InvalidArgument", "InvalidState", "Internal"}

\* C11: when OPENAI_API_KEY is absent, submit() and stream() fail with
\* InvalidState and no request is sent, whatever the builder holds.
C11_MissingKeyIsInvalidState ==
    (op # "" /\ ~env.key) =>
        (outcome.kind = "InvalidState" /\ posts = 0 /\ net = NoNet)

C11_Witness ==
    /\ op = "stream"
    /\ ~env.key
    /\ MoreThanFourStops
    /\ TemperatureAndTopP
    /\ outcome.kind = "InvalidState"

\* C13: of a response whose body was received, a 2xx status takes the
\* success path (the stream handle, or the decoding of the body), a 4xx
\* status gives InvalidArgument with the body text, any other status
\* gives Internal with the body text.
C13_StatusBranches ==
    (op # "" /\ ResponseReceived) =>
        IF Success2xx THEN
            /\ op = "stream" => outcome = OkStream
            /\ (op = "submit" /\ net.read) =>
                    outcome = IF IsOneDocument(net.body)
                              THEN OkResponse(DocumentId(net.body))
                              ELSE InvalidState(from_slice(family, net.body).val)
        ELSE net.read =>
            outcome = IF Client4xx
                      THEN InvalidArgumentText("request", net.body)
                      ELSE InternalMessage(net.body)

C13_Witness ==
    /\ op = "stream"
    /\ ResponseReceived
    /\ net.status = 499
    /\ outcome = InvalidArgumentText("request", <<"b", "a", "d">>)

\* the call has returned after a transport failure: the send failed, or
\* the body the call was reading broke off
TransportFailed ==
    /\ rpc = "done"
    /\ posts = 1
    /\ \/ ~net.sent
       \/ net.sent /\ ~net.read /\ (op = "submit" \/ ~Success2xx)

\* C14: every transport failure during submit() or stream() surfaces as
\* Internal carrying the underlying cause.
C14_TransportFailureIsInternal ==
    (op # "" /\ TransportFailed) => outcome = Internal(net.err)

\* C15: a terminal operation returns InvalidState only when the API key
\* is missing or when a fully received 2xx body failed to parse.
C15_InvalidStateCauses ==
    (op # "" /\ outcome.kind = "InvalidState") =>
        \/ ~env.key
        \/ /\ op = "submit"
           /\ ResponseReceived /\ net.read /\ Success2xx
           /\ ~IsOneDocument(net.body)

\* a local check fails for the builder the operation was called on
LocalError ==
    \/ ~env.key
    \/ MoreThanFourStops
    \/ TemperatureAndTopP
    \/ op = "submit" /\ builder.stream = Some(TRUE)

\* C16: one call sends at most one request: none when a local check
\* fails, one otherwise, also when the send failed or the status was an
\* error, and then the error is what the call returns; while the call
\* waits for the send or for the body the one request is out and nothing
\* has been returned.
C16_AtMostOnePost ==
    /\ posts <= 1
    /\ op = "" => posts = 0
    /\ op # "" => posts = (IF LocalError THEN 0 ELSE 1)
    /\ (rpc = "done" /\ posts = 1 /\ (~net.sent \/ ~Success2xx)) =>
            outcome.kind \in ErrorKinds
    /\ rpc \in {"send", "body"} => (posts = 1 /\ outcome = NoResult)

C16_Witness ==
    /\ op = "submit"
    /\ posts = 1
    /\ ~net.sent
    /\ outcome = Internal("e1")

\* =================================================================
\* Properties of flatten_log_probs (checked under FlattenSpec)
\* =================================================================
\* the positions of the array elements that have key k
ElementsWith(k) == {i \in 1..Len(array) : k \in DOMAIN array[i].map}
LastWith(k) == CHOOSE i \in ElementsWith(k) : \A j \in ElementsWith(k) : j <= i

\* C17: the flattened map has the union of the keys of the elements, each
\* key with the value of the last element that has it; the empty array
\* gives the empty map.
C17_LastWriteWins ==
    visit = "ok" =>
        /\ DOMAIN result = UNION {DOMAIN array[i].map : i \in 1..Len(array)}
        /\ \A k \in DOMAIN result : result[k] = array[LastWith(k)].map[k]
        /\ array = <<>> => DOMAIN result = {}

C17_Witness ==
    /\ visit = "ok"
    /\ Len(array) = 3
    /\ array[1].map = [k \in {"a"} |-> 1]
    /\ array[2].map = [k \in {"b"} |-> 2]
    /\ array[3].map = [k \in {"a"} |-> 3]
    /\ result = [k \in {"a", "b"} |-> IF k = "a" THEN 3 ELSE 2]

\* =================================================================
\* The two families side by side
\* =================================================================
Other(t) == IF t = "completion" THEN "chat" ELSE "completion"

\* One call of next() of family t on the items from script[i] on, as the
\* loop runs it: whether the call returns, the result and the number of
\* items consumed.  Past the last item the loop is left only if the
\* stream yields None; on a stream that stays open the call is pending
\* for ever and has no result.
RECURSIVE Drain(_, _, _)
Drain(t, i, buf) ==
    IF i > Len(script) THEN
        IF closes
        THEN [returned |-> TRUE, res |-> FinishOf(t, buf), consumed |-> Len(script)]
        ELSE [returned |-> FALSE, res |-> NoResult, consumed |-> Len(script)]
    ELSE IF script[i].ok
         THEN Drain(t, i + 1, AppendChunkOf(t, buf, script[i].bytes))
         ELSE [returned |-> TRUE, res |-> OnErrorOf(t, buf, script[i].err),
               consumed |-> i]
\* the k-th call of next() on a handle of family t made over the script;
\* it starts where the call before it returned, and is not made when
\* that call has not returned (next takes &mut self)
RECURSIVE NextOf(_, _)
NextOf(t, k) ==
    IF k = 1 THEN Drain(t, 1, <<>>)
    ELSE LET p == NextOf(t, k - 1) IN
         IF p.returned THEN Drain(t, p.consumed + 1, <<>>)
         ELSE [returned |-> FALSE, res |-> NoResult, consumed |-> p.consumed]

\* the outcome classes of the taxonomy
Class(r) ==
    IF r.kind \in {"Some", "None", "Response", "Stream"} THEN "success" ELSE r.kind
\* the bytes are a document for both response types or for neither
ParseAlike(b) ==
    Trim(b) \in DocumentsOf("completion") <=> Trim(b) \in DocumentsOf("chat")
\* the bytes are a document for the response type of family t only
OwnDocument(t, b) == Trim(b) \in DocumentsOf(t) \ DocumentsOf(Other(t))

\* C18 as stated: on every call the decoders of the two families return
\* the same class of outcome for the same chunks, sentinels and errors.
C18_DecodersAgree ==
    \A k \in Returned :
        /\ NextOf("completion", k).returned = NextOf("chat", k).returned
        /\ Class(NextOf("completion", k).res) = Class(NextOf("chat", k).res)

AllBuilders ==
    [temperature : {None, Some("t")}, top_p : {None, Some("p")},
     n : {None, Some("n")}, stream : {None, Some(TRUE), Some(FALSE)},
     stop : {None} \cup {Some(v) : v \in StopVecs},
     max_tokens : {None, Some("m")}]

\* submit() and stream() of completion/request.rs and those of
\* chat_completion/request.rs return the same class for the same builder,
\* configuration and network answer, whenever the body parses alike as
\* the two response types
RequestsAgree ==
    \A b \in AllBuilders, e \in [key : BOOLEAN, org : BOOLEAN],
       x \in NetOutcomes, o \in {"submit", "stream"} :
        ParseAlike(x.body)
        => Class(TerminalOutcome("completion", o, b, e, x))
             = Class(ChatTerminalOutcome(o, b, e, x))

\* C18 amended: the terminal operations of the two families agree for
\* every combination of inputs with the same body-parse outcome.  The
\* two decoders consume the same items on every call and agree on the
\* class of every call that ends in a transport error or whose bytes
\* parse alike as the two response types; bytes that are a document for
\* one response type only are Ok(Some) for that family's decoder and
\* InvalidState for the other's.
C18_FamiliesAgreeOnCommonDocuments ==
    /\ \A k \in Returned :
        LET c == NextOf("completion", k)
            h == NextOf("chat", k)
            own == IF family = "chat" THEN h ELSE c
            oth == IF family = "chat" THEN c ELSE h
        IN  /\ c.returned /\ h.returned
            /\ results[k] = own.res
            /\ trace[k].consumed = own.consumed
            /\ c.consumed = h.consumed
            /\ IF results[k].kind = "Internal" \/ ParseAlike(CallBytes(k))
               THEN Class(c.res) = Class(h.res)
               ELSE IF OwnDocument(family, CallBytes(k))
                    THEN own.res.kind = "Some" /\ oth.res.kind = "InvalidState"
                    ELSE own.res.kind = "InvalidState" /\ oth.res.kind = "Some"
    /\ RequestsAgree

C18_Witness ==
    /\ family = "chat"
    /\ Len(results) = 2
    /\ results[1].kind = "Internal"
    /\ NextOf("completion", 1).res = results[1]
    /\ results[2] = OkSome("2")
    /\ ParseAlike(trace[2].buf)
    /\ NextOf("completion", 2).res = results[2]

\* =================================================================
\* The stream flag (checked under ReqSpec)
\* =================================================================
\* the body submit() serializes for the builder as the caller built it:
\* the fields set, by name
BuiltFields == {f \in {"temperature", "top_p", "n", "stop", "max_tokens"} :
                    builder[f] # None}
BuiltBody == [f \in BuiltFields |-> builder[f][1]]

\* C19: the body stream() sends is the body submit() sends for the same
\* builder, and it has no stream member.
C19_StreamBodyWithoutFlag ==
    (op # "" /\ posts = 1) =>
        /\ wire.body = BuiltBody
        /\ "stream" \notin DOMAIN wire.body

C19_Witness ==
    /\ op = "stream"
    /\ posts = 1
    /\ builder.stream = Some(TRUE)
    /\ DOMAIN wire.body = {"n", "stop"}

\* C20: a builder made by new and the setters has the stream flag unset;
\* only stream() sets it, on the builder it has consumed; so submit()
\* never returns the error that names stream.
C20_StreamFlagUnset ==
    /\ op = "" => builder.stream = None
    /\ builder.stream # None => (op = "stream" /\ builder.stream = Some(TRUE))
    /\ op = "submit" => (builder.stream = None /\ outcome.arg # "stream")

C20_Witness ==
    /\ op = "submit"
    /\ builder.temperature # None /\ builder.n # None
    /\ builder.stop # None /\ builder.max_tokens # None
    /\ builder.stream = None
    /\ posts = 1

\* =================================================================
\* the local conditions a terminal operation finds violated, on the raw
\* fields, numbered in the order of the claim
Violations ==
    (IF ~env.key THEN {1} ELSE {})
        \cup (IF builder.stop # None /\ Len(builder.stop[1]) > 4 THEN {2} ELSE {})
        \cup (IF builder.temperature # None /\ builder.top_p # None THEN {3} ELSE {})
        \cup (IF op = "submit" /\ builder.stream = Some(TRUE) THEN {4} ELSE {})
Earliest == CHOOSE v \in Violations : \A w \in Violations : v <= w
ErrorOf(v) ==
    CASE v = 1 -> InvalidState("OPENAI_API_KEY env variable must be set")
      [] v = 2 -> InvalidArgument("stop", "You can only provide up to 4 stop sequences")
      [] v = 3 -> InvalidArgument("temperature", "Use temperature or top_p but not both")
      [] v = 4 -> InvalidArgument("stream", "Use stream() instead of submit")

\* C21: a terminal operation that finds local conditions violated returns
\* the error of the earliest one in the order key, stop, temperature with
\* top_p, stream flag (submit only), and sends nothing; one that finds
\* none violated sends the request.
C21_EarliestCheckDecides ==
    op # "" =>
        IF Violations # {} THEN outcome = ErrorOf(Earliest) /\ posts = 0
        ELSE posts = 1

C21_Witness ==
    /\ op = "submit"
    /\ Violations = {2, 3, 4}
    /\ outcome = InvalidArgument("stop", "You can only provide up to 4 stop sequences")
    /\ posts = 0

\* =================================================================
\* the calls that ended with a transport error
Failed == {j \in Returned : results[j].kind = "Internal"}
\* the bytes of the chunks from item i + 1 to item j, sentinels left out
BytesAfter(i, j) == NonSentinelBytes(i + 1, j)

\* C22: a call made after a call that ended with a transport error reads
\* only items behind the failed one; its buffer holds the bytes of the
\* chunks it read itself and nothing else, while it runs and when it
\* returns; and it returns the error of the next failed item, or at the
\* end of the stream the decoding of those bytes alone: Ok(None),
\* Ok(Some) or InvalidState.
C22_BufferLocalToCall ==
    /\ \A j \in Failed : \A k \in Returned : j < k =>
            /\ trace[j].consumed \in 1..Len(script)
            /\ ~script[trace[j].consumed].ok
            /\ trace[j].consumed <= CallStart(k)
            /\ trace[k].buf = BytesAfter(CallStart(k), trace[k].consumed)
            /\ IF ErrorsAhead(k) # {}
               THEN results[k] = Internal(script[FirstErrorAhead(k)].err)
               ELSE /\ results[k] = FinishOf(family, BytesAfter(CallStart(k), Len(script)))
                    /\ results[k].kind \in {"None", "Some", "InvalidState"}
    /\ (pc = "drain" /\ Len(results) \in Failed) =>
            full_bytes = BytesAfter(trace[Len(results)].consumed, Consumed)

C22_Witness ==
    /\ Len(results) = 2
    /\ results[1].kind = "Internal"
    /\ trace[1].buf # <<>>
    /\ results[2].kind = "Some"
    /\ trace[2].buf # <<>>

\* =================================================================
\* the sentinel occurs in the bytes b
Occurs(b) ==
    \E o \in 0..(Len(b) - Len(STREAM_TERMINATION_STRING)) :
        SubSeq(b, o + 1, o + Len(STREAM_TERMINATION_STRING)) = STREAM_TERMINATION_STRING
\* the items call k has read
ItemsOf(k) == (CallStart(k) + 1)..trace[k].consumed
\* item i is a chunk other than the sentinel chunk
OtherChunk(i) == script[i].ok /\ script[i].bytes # STREAM_TERMINATION_STRING
OneDocument == <<"{", "1", "u", "}">>

\* C23: only a chunk that is exactly the sentinel is left out of the
\* buffer; a chunk that holds the sentinel and more, and a sentinel cut
\* over two consecutive chunks, reach the buffer with the sentinel bytes
\* in it. So the result depends on the chunking: of the ways to deliver
\* the bytes of a document followed by the sentinel, the one whose last
\* chunk is the sentinel decodes the document and the others end in
\* InvalidState.
C23_SentinelOnlyAsWholeChunk ==
    /\ \A k \in Returned :
            /\ trace[k].buf = CallBytes(k)
            /\ \A i \in ItemsOf(k) :
                    (OtherChunk(i) /\ Occurs(script[i].bytes)) => Occurs(trace[k].buf)
            /\ \A i \in ItemsOf(k) :
                    (/\ i + 1 \in ItemsOf(k)
                     /\ OtherChunk(i) /\ OtherChunk(i + 1)
                     /\ Occurs(script[i].bytes \o script[i + 1].bytes))
                        => Occurs(trace[k].buf)
    /\ (/\ Len(results) >= 1
        /\ trace[1].ended
        /\ \A i \in 1..Len(script) : script[i].ok
        /\ AllBytes(1, Len(script)) = OneDocument \o STREAM_TERMINATION_STRING) =>
            IF script[Len(script)] = Sentinel
            THEN results[1] = OkSome(DocumentId(OneDocument))
            ELSE results[1].kind = "InvalidState"
    /\ FinishOf(family,
                AppendChunkOf(family, AppendChunkOf(family, <<>>, OneDocument),
                              STREAM_TERMINATION_STRING)).kind = "Some"
    /\ FinishOf(family,
                AppendChunkOf(family, <<>>,
                              OneDocument \o STREAM_TERMINATION_STRING)).kind
            = "InvalidState"

C23_Witness ==
    /\ Len(results) = 1
    /\ trace[1].ended
    /\ Len(script) = 3
    /\ \A i \in 1..3 : OtherChunk(i)
    /\ AllBytes(1, 3) = OneDocument \o STREAM_TERMINATION_STRING
    /\ trace[1].buf = OneDocument \o STREAM_TERMINATION_STRING
    /\ results[1].kind = "InvalidState"

\* =================================================================
\* the underlying stream has an error ahead or signals its end
Stops == closes \/ \E i \in 1..Len(stream) : ~stream[i].ok

\* C24: a call returns only on an error item or on the end of the
\* stream; a call on a stream that has an error ahead or signals its end
\* returns; a call on a stream that stays open with no error ahead never
\* returns, whatever it has read, the sentinel included.
C24_ReturnsIffStreamStops ==
    /\ [](\A k \in Returned : trace[k].ended \/ results[k].kind = "Internal")
    /\ ((pc = "drain" /\ Stops) ~> (pc = "idle"))
    /\ []((pc = "drain" /\ ~Stops) => [](pc = "drain"))

C24_Witness ==
    /\ pc = "drain"
    /\ ~closes
    /\ stream = <<>>
    /\ script = <<Chunk(<<"{", "1", "u", "}">>), Chunk(STREAM_TERMINATION_STRING)>>
    /\ full_bytes = <<"{", "1", "u", "}">>
    /\ results = <<>>
====
